---------------------------- MODULE Spec2Model ----------------------------
(***************************************************************************)
(* Model of src/main.py: class IntersectionAreaPlotter.                    *)
(*                                                                         *)
(* The instance samples [0,10] x [0,10] on an N x N grid, evaluates        *)
(*     y1 = a*x1^A + b*x2^B      and      y2 = c*x1^Y * x2^G               *)
(* on it, keeps the coordinates of the grid points where both values lie   *)
(* in their closed ranges, and reports a percentage derived from the       *)
(* number of those points that fall inside a reference rectangle.          *)
(*                                                                         *)
(* Numbers.  The code computes in IEEE doubles.  The model computes in     *)
(* exact rationals <<numerator, denominator>> (denominator > 0, lowest     *)
(* terms), so rounding is abstracted away; parameters are drawn from       *)
(* integers and the exponents from the naturals, where x^k is a finite     *)
(* product (numpy gives 0.0**0 = 1.0, as RPow does).  Parameters are       *)
(* Python numbers, as in the entry point (main.py:184-200), so a division  *)
(* by zero raises ZeroDivisionError.                                       *)
(***************************************************************************)
EXTENDS Integers, Sequences, FiniteSets, TLC

VARIABLES
    params,            \* self.a, self.b, ..., self.x2_max   (main.py:36-45)
    x1, x2,            \* self.x1, self.x2: the meshgrid      (main.py:55)
    y1, y2,            \* self.y1, self.y2                    (main.py:57-58)
    x1_intersection,   \* self.x1_intersection                (main.py:82)
    x2_intersection,   \* self.x2_intersection                (main.py:83)
    percentage,        \* outcome of the last calculate_percentage_area call
    last               \* the caller's position: the last operation performed

vars == <<params, x1, x2, y1, y2, x1_intersection, x2_intersection,
          percentage, last>>

grid_vars == <<x1, x2, y1, y2, x1_intersection, x2_intersection>>

-----------------------------------------------------------------------------
(* Bounds and program constants *)

\* Samples per axis: np.linspace(0, 10, 1000) in the code, scaled down here.
\* The same number is the factor 1000 of square_area (main.py:177).
N == 4

DomainLo == 0

DomainHi == 10

AreaScale == 10

Percent == 100

-----------------------------------------------------------------------------
(* Exact rational arithmetic standing for the float arithmetic of numpy *)

Abs(n) == IF n < 0 THEN -n ELSE n

RECURSIVE GCD(_, _)
GCD(m, n) == IF n = 0 THEN m ELSE GCD(n, m % n)

\* The rational n/d (d # 0) in lowest terms with a positive denominator.
Rat(n, d) ==
    LET g == GCD(Abs(n), Abs(d))
        s == IF d < 0 THEN -1 ELSE 1
    IN  <<(s * n) \div g, (s * d) \div g>>

FromInt(n) == <<n, 1>>

RAdd(p, q) == Rat(p[1] * q[2] + q[1] * p[2], p[2] * q[2])

RMul(p, q) == Rat(p[1] * q[1], p[2] * q[2])

RECURSIVE RPow(_, _)
RPow(p, k) == IF k = 0 THEN FromInt(1) ELSE RMul(p, RPow(p, k - 1))

RLeq(p, q) == p[1] * q[2] <= q[1] * p[2]

RLess(p, q) == p[1] * q[2] < q[1] * p[2]


-----------------------------------------------------------------------------
(* Construction parameters *)

\* The values each constructor argument is drawn from.
ParamSpace ==
    [a : {1}, b : {-1, 1}, A : {1, 2}, B : {1},
     y1_min : {5, 10}, y1_max : {5, 10},
     c : {1, 2}, Y : {0, 1}, G : {0, 1},
     y2_min : {0, 10}, y2_max : {0, 10},
     x1_min : {2, 8}, x1_max : {2, 8}, x2_min : {2}, x2_max : {2, 8}]

\* The attributes a caller reassigns in SpecSet, with the values assigned.
SetDomain ==
    [b |-> {-1, 1}, y1_min |-> {5, 10}, y1_max |-> {5, 10},
     y2_min |-> {0, 10}, y2_max |-> {0, 10}]

SetSpace ==
    [a : {1}, b : {-1, 1}, A : {1}, B : {1},
     y1_min : {5, 10}, y1_max : {5, 10},
     c : {1}, Y : {1}, G : {0},
     y2_min : {0, 10}, y2_max : {0, 10},
     x1_min : {2}, x1_max : {8}, x2_min : {2}, x2_max : {8}]

-----------------------------------------------------------------------------
(* generate_grid and its helpers *)

\* np.linspace(lo, hi, n): n evenly spaced samples, both ends included.
linspace(lo, hi, n) ==
    [i \in 1..n |-> Rat(lo * (n - 1) + (i - 1) * (hi - lo), n - 1)]

\* np.meshgrid(xs, ys)[0]: row r, column c holds xs[c].
meshgrid_x1(xs, ys) == [r \in 1..Len(ys) |-> [c \in 1..Len(xs) |-> xs[c]]]

\* np.meshgrid(xs, ys)[1]: row r, column c holds ys[r].
meshgrid_x2(xs, ys) == [r \in 1..Len(ys) |-> [c \in 1..Len(xs) |-> ys[r]]]

\* y1 = a * x1**A + b * x2**B, elementwise.
get_y1(p, gx1, gx2) ==
    [r \in 1..Len(gx1) |-> [c \in 1..Len(gx1[r]) |->
        RAdd(RMul(FromInt(p.a), RPow(gx1[r][c], p.A)),
             RMul(FromInt(p.b), RPow(gx2[r][c], p.B)))]]

\* y2 = c * x1**Y * x2**G, elementwise.
get_y2(p, gx1, gx2) ==
    [r \in 1..Len(gx1) |-> [c \in 1..Len(gx1[r]) |->
        RMul(RMul(FromInt(p.c), RPow(gx1[r][c], p.Y)), RPow(gx2[r][c], p.G))]]

\* intersection with the upper bound of the y1 range excluded (< for <=).
intersection_open_upper(p, gy1, gy2) ==
    [r \in 1..Len(gy1) |-> [c \in 1..Len(gy1[r]) |->
        /\ RLeq(FromInt(p.y1_min), gy1[r][c]) /\ RLess(gy1[r][c], FromInt(p.y1_max))
        /\ RLeq(FromInt(p.y2_min), gy2[r][c]) /\ RLeq(gy2[r][c], FromInt(p.y2_max))]]

\* intersection with the two range conditions joined by OR instead of AND.
intersection_either(p, gy1, gy2) ==
    [r \in 1..Len(gy1) |-> [c \in 1..Len(gy1[r]) |->
        \/ RLeq(FromInt(p.y1_min), gy1[r][c]) /\ RLeq(gy1[r][c], FromInt(p.y1_max))
        \/ RLeq(FromInt(p.y2_min), gy2[r][c]) /\ RLeq(gy2[r][c], FromInt(p.y2_max))]]

\* The boolean matrix `intersection` of find_intersection.
intersection(p, gy1, gy2) ==
    [r \in 1..Len(gy1) |-> [c \in 1..Len(gy1[r]) |->
        /\ RLeq(FromInt(p.y1_min), gy1[r][c]) /\ RLeq(gy1[r][c], FromInt(p.y1_max))
        /\ RLeq(FromInt(p.y2_min), gy2[r][c]) /\ RLeq(gy2[r][c], FromInt(p.y2_max))]]

\* Row and column of the k-th cell (k = 1..rows*cols) in C (row-major) order.
RowOf(k, cols) == ((k - 1) \div cols) + 1

ColOf(k, cols) == ((k - 1) % cols) + 1

\* mask_index scanning the matrix column by column (Fortran order).
mask_index_column_major(m, mask) ==
    LET rows == Len(m)
        cols == IF rows = 0 THEN 0 ELSE Len(m[1])
        all  == [k \in 1..(rows * cols) |-> k]
        sel  == SelectSeq(all, LAMBDA k : mask[ColOf(k, rows)][RowOf(k, rows)])
    IN  [i \in 1..Len(sel) |-> m[ColOf(sel[i], rows)][RowOf(sel[i], rows)]]

\* m[mask] with a boolean matrix: the selected entries, in row-major order.
mask_index(m, mask) ==
    LET rows == Len(m)
        cols == IF rows = 0 THEN 0 ELSE Len(m[1])
        all  == [k \in 1..(rows * cols) |-> k]
        sel  == SelectSeq(all, LAMBDA k : mask[RowOf(k, cols)][ColOf(k, cols)])
    IN  [i \in 1..Len(sel) |-> m[RowOf(sel[i], cols)][ColOf(sel[i], cols)]]

\* generate_grid taking x2_intersection out of self.y2 instead of self.x2.
generate_grid_x2_from_y2 ==
    LET x1_values == linspace(DomainLo, DomainHi, N)
        x2_values == linspace(DomainLo, DomainHi, N)
    IN  /\ x1' = meshgrid_x1(x1_values, x2_values)
        /\ x2' = meshgrid_x2(x1_values, x2_values)
        /\ y1' = get_y1(params, x1', x2')
        /\ y2' = get_y2(params, x1', x2')
        /\ x1_intersection' = mask_index(x1', intersection(params, y1', y2'))
        /\ x2_intersection' = mask_index(y2', intersection(params, y1', y2'))
        /\ last' = "generate_grid"
        /\ UNCHANGED <<params, percentage>>

\* generate_grid appending to the coordinate sequences instead of replacing them.
generate_grid_appending ==
    LET x1_values == linspace(DomainLo, DomainHi, N)
        x2_values == linspace(DomainLo, DomainHi, N)
    IN  /\ x1' = meshgrid_x1(x1_values, x2_values)
        /\ x2' = meshgrid_x2(x1_values, x2_values)
        /\ y1' = get_y1(params, x1', x2')
        /\ y2' = get_y2(params, x1', x2')
        /\ x1_intersection' =
               x1_intersection \o mask_index(x1', intersection(params, y1', y2'))
        /\ x2_intersection' =
               x2_intersection \o mask_index(x2', intersection(params, y1', y2'))
        /\ last' = "generate_grid"
        /\ UNCHANGED <<params, percentage>>

\* generate_grid reusing the y1 matrix it already holds instead of re-evaluating.
generate_grid_keeping_y1 ==
    LET x1_values == linspace(DomainLo, DomainHi, N)
        x2_values == linspace(DomainLo, DomainHi, N)
    IN  /\ x1' = meshgrid_x1(x1_values, x2_values)
        /\ x2' = meshgrid_x2(x1_values, x2_values)
        /\ y1' = y1
        /\ y2' = get_y2(params, x1', x2')
        /\ x1_intersection' = mask_index(x1', intersection(params, y1', y2'))
        /\ x2_intersection' = mask_index(x2', intersection(params, y1', y2'))
        /\ last' = "generate_grid"
        /\ UNCHANGED <<params, percentage>>

\* generate_grid(): rebuilds the grid, both value matrices and, through
\* find_intersection(), both coordinate sequences, from the current parameters.
generate_grid ==
    LET x1_values == linspace(DomainLo, DomainHi, N)
        x2_values == linspace(DomainLo, DomainHi, N)
    IN  /\ x1' = meshgrid_x1(x1_values, x2_values)
        /\ x2' = meshgrid_x2(x1_values, x2_values)
        /\ y1' = get_y1(params, x1', x2')
        /\ y2' = get_y2(params, x1', x2')
        /\ x1_intersection' = mask_index(x1', intersection(params, y1', y2'))
        /\ x2_intersection' = mask_index(x2', intersection(params, y1', y2'))
        /\ last' = "generate_grid"
        /\ UNCHANGED <<params, percentage>>

-----------------------------------------------------------------------------
(* calculate_percentage_area and its helpers *)

Min(m, n) == IF m < n THEN m ELSE n

\* [[x1, y1] for x1, y1 in zip(xs, ys)]
zip_points(xs, ys) == [k \in 1..Min(Len(xs), Len(ys)) |-> <<xs[k], ys[k]>>]

\* The rows of `points` inside the reference rectangle, edges included.
inside_points(p, points) ==
    SelectSeq(points, LAMBDA pt :
        /\ RLeq(FromInt(p.x1_min), pt[1]) /\ RLeq(pt[1], FromInt(p.x1_max))
        /\ RLeq(FromInt(p.x2_min), pt[2]) /\ RLeq(pt[2], FromInt(p.x2_max)))

\* square_area with the first side taken as x1_min - x1_max.
square_area_swapped(p) ==
    (p.x1_min - p.x1_max) * (p.x2_max - p.x2_min) * AreaScale * N

square_area(p) ==
    (p.x1_max - p.x1_min) * (p.x2_max - p.x2_min) * AreaScale * N

NoResult == [kind |-> "none", val |-> FromInt(0)]

Raised(e) == [kind |-> e, val |-> FromInt(0)]

Returned(v) == [kind |-> "value", val |-> v]

\* What a call of calculate_percentage_area hands its caller.  With no
\* intersection point np.array([]) is one-dimensional and points[:, 0] raises
\* IndexError; a zero square_area raises ZeroDivisionError at the division.
percentage_area(p, xs, ys) ==
    LET points == zip_points(xs, ys)
    IN  IF Len(points) = 0
        THEN Raised("IndexError")
        ELSE LET count == Len(inside_points(p, points))
                 area  == square_area(p)
             IN  IF area = 0
                 THEN Raised("ZeroDivisionError")
                 ELSE Returned(RMul(Rat(count, area), FromInt(Percent)))

calculate_percentage_area ==
    /\ percentage' = percentage_area(params, x1_intersection, x2_intersection)
    /\ last' = "calculate_percentage_area"
    /\ UNCHANGED <<params, x1, x2, y1, y2, x1_intersection, x2_intersection>>

-----------------------------------------------------------------------------
(* The caller reassigning an instance attribute: the parameters are plain   *)
(* attributes, and nothing runs when one is assigned.                       *)

set_attribute ==
    \E f \in DOMAIN SetDomain : \E v \in SetDomain[f] :
        /\ v # params[f]
        /\ params' = [params EXCEPT ![f] = v]
        /\ last' = "set_attribute"
        /\ UNCHANGED <<x1, x2, y1, y2, x1_intersection, x2_intersection,
                       percentage>>

-----------------------------------------------------------------------------
(* Specifications *)

\* The state __init__ leaves: the attributes set to the arguments p, then
\* generate_grid() run on them.
Constructed(p) ==
    /\ params = p
    /\ x1 = meshgrid_x1(linspace(DomainLo, DomainHi, N), linspace(DomainLo, DomainHi, N))
    /\ x2 = meshgrid_x2(linspace(DomainLo, DomainHi, N), linspace(DomainLo, DomainHi, N))
    /\ y1 = get_y1(params, x1, x2)
    /\ y2 = get_y2(params, x1, x2)
    /\ x1_intersection = mask_index(x1, intersection(params, y1, y2))
    /\ x2_intersection = mask_index(x2, intersection(params, y1, y2))
    /\ percentage = NoResult
    /\ last = "__init__"

Init == \E p \in ParamSpace : Constructed(p)

Next == generate_grid \/ calculate_percentage_area

\* An instance used through its methods only.
Spec == Init /\ [][Next]_vars

InitSet == \E p \in SetSpace : Constructed(p)

NextSet == generate_grid \/ calculate_percentage_area \/ set_attribute

\* An instance whose caller also reassigns parameters between calls.
SpecSet == InitSet /\ [][NextSet]_vars

-----------------------------------------------------------------------------
(* Properties.  The definitions below restate what the claims say from the  *)
(* parameters and the grid coordinates, without the operators above.        *)

Cells == (1..N) \X (1..N)

\* y1 and y2 at a point, from the formulas of the two functions.
Y1At(u, v) ==
    RAdd(RMul(FromInt(params.a), RPow(u, params.A)),
         RMul(FromInt(params.b), RPow(v, params.B)))

Y2At(u, v) == RMul(FromInt(params.c), RMul(RPow(u, params.Y), RPow(v, params.G)))

InY1Range(v) == RLeq(FromInt(params.y1_min), v) /\ RLeq(v, FromInt(params.y1_max))

InY2Range(v) == RLeq(FromInt(params.y2_min), v) /\ RLeq(v, FromInt(params.y2_max))

\* Both range conditions hold at the grid point of row r, column c.
InRanges(r, c) ==
    /\ InY1Range(Y1At(x1[r][c], x2[r][c]))
    /\ InY2Range(Y2At(x1[r][c], x2[r][c]))

\* The grid point of row r, column c occurs in the coordinate sequences.
Selected(r, c) ==
    \E k \in 1..Len(x1_intersection) :
        /\ k <= Len(x2_intersection)
        /\ x1_intersection[k] = x1[r][c]
        /\ x2_intersection[k] = x2[r][c]

InRectangle(u, v) ==
    /\ RLeq(FromInt(params.x1_min), u) /\ RLeq(u, FromInt(params.x1_max))
    /\ RLeq(FromInt(params.x2_min), v) /\ RLeq(v, FromInt(params.x2_max))

\* The intersection points that lie inside the reference rectangle.
InsideCount ==
    Cardinality({k \in 1..Len(x1_intersection) :
                    InRectangle(x1_intersection[k], x2_intersection[k])})

Denom ==
    (params.x1_max - params.x1_min) * (params.x2_max - params.x2_min) * 10 * N

Degenerate == params.x1_min = params.x1_max \/ params.x2_min = params.x2_max

WellFormed ==
    /\ params.x1_min < params.x1_max /\ params.x2_min < params.x2_max
    /\ DomainLo < params.x1_min /\ params.x1_max < DomainHi
    /\ DomainLo < params.x2_min /\ params.x2_max < DomainHi

\* C1: a grid point is in the intersection set exactly when y1 and y2 at that
\* point both lie in their closed ranges (all four bounds inclusive).
C1_MaskIff == \A rc \in Cells : Selected(rc[1], rc[2]) <=> InRanges(rc[1], rc[2])

\* C1 witness: after generate_grid a point whose y1 equals y1_max exactly is
\* selected while another grid point is rejected.
C1_Witness ==
    /\ last = "generate_grid"
    /\ \E rc \in Cells :
          /\ Selected(rc[1], rc[2])
          /\ Y1At(x1[rc[1]][rc[2]], x2[rc[1]][rc[2]]) = FromInt(params.y1_max)
    /\ \E rc \in Cells : ~Selected(rc[1], rc[2])

\* C2: whenever the rectangle has a non-zero area, calculate_percentage_area
\* returns 100 * count(inside) / denom, inside being the intersection points
\* within the rectangle (edges included) and denom the scaled rectangle area.
C2_ReturnsRatio ==
    (last = "calculate_percentage_area" /\ Denom # 0) =>
        /\ percentage.kind = "value"
        /\ percentage.val[1] * Denom = 100 * InsideCount * percentage.val[2]

\* C3: a call of calculate_percentage_area never ends in an error: the caller
\* gets a number, also when the intersection set is empty.
C3_NeverAborts == percentage.kind \in {"none", "value"}

\* C4: with a degenerate rectangle every call of calculate_percentage_area has
\* the same kind of outcome (the division by zero), whatever the intersection
\* set holds.
C4_SameOutcome ==
    (Degenerate /\ percentage.kind # "none") => percentage.kind = "ZeroDivisionError"

\* C5: an inverted y1 range or an inverted y2 range leaves the intersection
\* set empty.
C5_InvertedEmpty ==
    (params.y1_min > params.y1_max \/ params.y2_min > params.y2_max) =>
        Len(x1_intersection) = 0 /\ Len(x2_intersection) = 0

\* C5 witness: generate_grid ran with the y1 range inverted while some grid
\* point satisfies the y2 range, and nothing was selected.
C5_Witness ==
    /\ last = "generate_grid"
    /\ params.y1_min > params.y1_max
    /\ \E rc \in Cells : InY2Range(Y2At(x1[rc[1]][rc[2]], x2[rc[1]][rc[2]]))
    /\ Len(x1_intersection) = 0

\* C6: the two coordinate sequences have equal length and every pair of them
\* is the coordinate pair of a point of the grid.
C6_SubsetOfGrid ==
    /\ Len(x1_intersection) = Len(x2_intersection)
    /\ \A k \in 1..Len(x1_intersection) :
          \E rc \in Cells :
              /\ x1_intersection[k] = x1[rc[1]][rc[2]]
              /\ x2_intersection[k] = x2[rc[1]][rc[2]]

\* C6 witness: after an explicit generate_grid call the intersection set is a
\* proper, non-empty part of the grid.
C6_Witness ==
    /\ last = "generate_grid"
    /\ Len(x1_intersection) > 0
    /\ Len(x1_intersection) < N * N

C8_Idempotent == [][generate_grid => UNCHANGED grid_vars]_vars

\* C8 witness: generate_grid was called again on a constructed instance whose
\* intersection set is not empty.
C8_Witness ==
    /\ last = "generate_grid"
    /\ Len(x1_intersection) > 0
    /\ \E rc \in Cells : ~Selected(rc[1], rc[2])

\* The coordinate sequences the current parameter values determine: the
\* coordinates of the grid points in both ranges, row by row.
CurrentCells == SelectSeq([k \in 1..(N * N) |-> k],
                          LAMBDA k : InRanges(RowOf(k, N), ColOf(k, N)))

Current ==
    /\ x1_intersection =
          [i \in 1..Len(CurrentCells) |->
              x1[RowOf(CurrentCells[i], N)][ColOf(CurrentCells[i], N)]]
    /\ x2_intersection =
          [i \in 1..Len(CurrentCells) |->
              x2[RowOf(CurrentCells[i], N)][ColOf(CurrentCells[i], N)]]

\* C9 as stated: in every state the stored coordinate sequences are those the
\* current parameter values determine.
C9_AlwaysCurrent == Current

\* C9 as amended: right after construction and right after every generate_grid
\* call the stored coordinate sequences are those the current parameter values
\* determine.
C9_CurrentAfterGenerate == last \in {"__init__", "generate_grid"} => Current

\* C9 witness: generate_grid ran after a parameter change: the last
\* calculate_percentage_area call met an empty intersection set, and the set
\* is no longer empty.
C9_Witness ==
    /\ last = "generate_grid"
    /\ percentage.kind = "IndexError"
    /\ Len(x1_intersection) > 0

\* The place of the k-th intersection point in the row-major scan of the grid.
FlatOf(k) ==
    CHOOSE f \in 1..(N * N) :
        /\ x1_intersection[k] = x1[RowOf(f, N)][ColOf(f, N)]
        /\ x2_intersection[k] = x2[RowOf(f, N)][ColOf(f, N)]

\* C10: the k-th entries of the two sequences are the coordinates of one
\* selected grid cell, the cells appear by increasing row and, within a row,
\* by increasing column, and every selected cell appears exactly once.
C10_RowMajor ==
    /\ Len(x1_intersection) = Len(x2_intersection)
    /\ \A k \in 1..Len(x1_intersection) :
          \E f \in 1..(N * N) :
              /\ x1_intersection[k] = x1[RowOf(f, N)][ColOf(f, N)]
              /\ x2_intersection[k] = x2[RowOf(f, N)][ColOf(f, N)]
              /\ InRanges(RowOf(f, N), ColOf(f, N))
    /\ \A k, l \in 1..Len(x1_intersection) : k < l => FlatOf(k) < FlatOf(l)
    /\ Len(x1_intersection) =
          Cardinality({rc \in Cells : InRanges(rc[1], rc[2])})

\* C10 witness: after generate_grid the intersection set holds two cells of
\* one row and cells of two different rows, and is not the whole grid.
C10_Witness ==
    /\ last = "generate_grid"
    /\ Len(x1_intersection) < N * N
    /\ \E k, l \in 1..Len(x1_intersection) :
          /\ x2_intersection[k] = x2_intersection[l]
          /\ x1_intersection[k] # x1_intersection[l]
    /\ \E k, l \in 1..Len(x1_intersection) :
          x2_intersection[k] # x2_intersection[l]

=============================================================================
